---- MODULE Spec2Model ----
(***************************************************************************)
(* State-machine model of nox-plugin-arch-lint (main.go): the workspace   *)
(* walk of handleScan, parseFile, and the four analyzers                   *)
(* checkCircularDeps, checkGodObject, checkSecurityMixing and              *)
(* checkMissingAbstraction.                                                *)
(*                                                                         *)
(* Representation.  A source line is its text (a string).  A regular      *)
(* expression of main.go is the set of lines of the line alphabet it      *)
(* matches (evaluated pattern by pattern against each text).  A path and  *)
(* an import token are sequences of path segments ("a/x.go" is            *)
(* <<"a","x.go">>); the empty sequence is the empty string.               *)
(***************************************************************************)
EXTENDS Integers, Sequences, FiniteSets, TLC

VARIABLES
  workspaceRoot,  \* the workspace_root input of the request ("" is <<>>)
  disk,           \* the file system: path -> [kind, lines, err, got]
  ctx,            \* ctx.Err(): "live", "Canceled" or "DeadlineExceeded"
  pc,             \* position of the running handler
  todo,           \* paths WalkDir has still to hand to the callback, in order
  walkErr,        \* the error WalkDir returns ("nil" when none)
  files,          \* handleScan's files slice
  importGraph,    \* handleScan's importGraph map
  resp,           \* findings added to the response builder so far
  result,         \* what handleScan returned
  idx,            \* index of the analysis loop over files
  probe           \* per analyzed file, the imports checkCircularDeps examined

vars == <<workspaceRoot, disk, ctx, pc, todo, walkErr, files, importGraph, resp, result, idx, probe>>

(***************************************************************************)
(* Bounds of the explored inputs.                                          *)
(***************************************************************************)
MaxLines == 3      \* longest file of the analyzer harness made of free lines
MaxImports == 2    \* longest import list of the circular-dependency harness

(***************************************************************************)
(* Program constants.                                                      *)
(***************************************************************************)
godFileThreshold == 500
godExportThreshold == 10
sourceExtensions == {".go", ".py", ".js", ".ts"}
skippedDirs == {".git", "vendor", "node_modules", "__pycache__", ".venv", "dist", "build"}

(***************************************************************************)
(* Pattern tables: each regexp as the set of alphabet lines it matches.    *)
(***************************************************************************)
reGoImport == {"\t\"example.com/m/a\"", "\t\"example.com/m/b\"", "\t\"c\"", "\t\"crypto/sha256\""}
rePyImport == {"import hashlib", "from b import thing", "import a"}
reJSImport == {"const b = require('./b')", "import a from '../a'"}
reGoExport == {"func Login(w, r) {", "func HandleGetUsers(w, r) {", "type Config struct {"}
rePyExport == {"def login(request):", "def user_view(request):"}
rePyAllExport == {"__all__ = []"}
reJSExport == {"export function getUser(id) {"}
reCryptoGo == {"\t\"crypto/sha256\""}
reCryptoPy == {"import hashlib"}
reCryptoJS == {"const crypto = require('crypto')"}
reAuthGo == {"func Login(w, r) {"}
reAuthPy == {"def login(request):"}
reAuthJS == {"function login(req, res) {"}
reBizLogic == {"func HandleGetUsers(w, r) {", "export function getUser(id) {"}
reDBAccess == {"\trows := db.Query(\"SELECT id FROM users\")", "\tuser := repo.Find(id)"}
reHTTPRoute == {"\thttp.HandleFunc(\"/users\", h)", "app.get('/users', listUsers)"}
reSQLInHandler == {"\trows := db.Query(\"SELECT id FROM users\")"}
reHandlerFunc == {"func HandleGetUsers(w, r) {", "def user_view(request):", "app.get('/users', listUsers)"}

MatchString(re, line) == line \in re

\* FindStringSubmatch(line)[1] of reGoImport / reJSImport, m[1] or m[2] of rePyImport
Submatch(line) ==
  CASE line = "\t\"example.com/m/a\"" -> <<"example.com", "m", "a">>
    [] line = "\t\"example.com/m/b\"" -> <<"example.com", "m", "b">>
    [] line = "\t\"c\"" -> <<"c">>
    [] line = "\t\"crypto/sha256\"" -> <<"crypto", "sha256">>
    [] line = "import hashlib" -> <<"hashlib">>
    [] line = "from b import thing" -> <<"b">>
    [] line = "import a" -> <<"a">>
    [] line = "const b = require('./b')" -> <<".", "b">>
    [] line = "import a from '../a'" -> <<"..", "a">>
    [] OTHER -> <<>>

(***************************************************************************)
(* Formatting helpers.                                                     *)
(***************************************************************************)
RECURSIVE FormatInt(_)
FormatInt(n) == IF n < 10 THEN <<n>> ELSE Append(FormatInt(n \div 10), n % 10)

FormatBool(b) == IF b THEN "true" ELSE "false"

extToLanguage(ext) ==
  CASE ext = ".go" -> "go"
    [] ext = ".py" -> "python"
    [] ext = ".js" -> "javascript"
    [] ext = ".ts" -> "typescript"
    [] OTHER -> "unknown"

\* resp.Finding(rule, severity, confidence, message).At(path, l, l).WithMetadata(...).Done()
Finding(rule, sev, conf, msg, path, line, meta) ==
  [ruleID |-> rule, severity |-> sev, confidence |-> conf, message |-> msg,
   filePath |-> path, startLine |-> line, endLine |-> line, metadata |-> meta]

(***************************************************************************)
(* parseFile.  A file on disk is [lines, err, got]: err is "none", "open" *)
(* (os.Open fails) or "read" (the scanner stops with an error after        *)
(* delivering got lines).                                                  *)
(***************************************************************************)
\* variant: the import is recorded with the 0-based index of its line
ParseLineZeroBased(info, ext, line, lineNum) ==
  LET withLine == [info EXCEPT !.lines = Append(@, line)]
      imp == [module |-> Submatch(line), line |-> lineNum - 1]
  IN CASE ext = ".go" ->
            [withLine EXCEPT
               !.imports = IF MatchString(reGoImport, line) THEN Append(@, imp) ELSE @,
               !.exports = IF MatchString(reGoExport, line) THEN @ + 1 ELSE @]
       [] ext = ".py" ->
            [withLine EXCEPT
               !.imports = IF MatchString(rePyImport, line) /\ Submatch(line) # <<>>
                           THEN Append(@, imp) ELSE @,
               !.exports = IF MatchString(rePyExport, line) \/ MatchString(rePyAllExport, line)
                           THEN @ + 1 ELSE @]
       [] ext \in {".js", ".ts"} ->
            [withLine EXCEPT
               !.imports = IF MatchString(reJSImport, line) /\ Submatch(line) # <<>>
                           THEN Append(@, imp) ELSE @,
               !.exports = IF MatchString(reJSExport, line) THEN @ + 1 ELSE @]
       [] OTHER -> withLine

ParseLine(info, ext, line, lineNum) ==
  LET withLine == [info EXCEPT !.lines = Append(@, line)]
      imp == [module |-> Submatch(line), line |-> lineNum]
  IN CASE ext = ".go" ->
            [withLine EXCEPT
               !.imports = IF MatchString(reGoImport, line) THEN Append(@, imp) ELSE @,
               !.exports = IF MatchString(reGoExport, line) THEN @ + 1 ELSE @]
       [] ext = ".py" ->
            [withLine EXCEPT
               !.imports = IF MatchString(rePyImport, line) /\ Submatch(line) # <<>>
                           THEN Append(@, imp) ELSE @,
               !.exports = IF MatchString(rePyExport, line) \/ MatchString(rePyAllExport, line)
                           THEN @ + 1 ELSE @]
       [] ext \in {".js", ".ts"} ->
            [withLine EXCEPT
               !.imports = IF MatchString(reJSImport, line) /\ Submatch(line) # <<>>
                           THEN Append(@, imp) ELSE @,
               !.exports = IF MatchString(reJSExport, line) THEN @ + 1 ELSE @]
       [] OTHER -> withLine

\* for scanner.Scan() { lineNum++ ... } over the lines lo..hi delivered by the
\* scanner, in order.  The range is split in halves to bound the nesting depth;
\* the test on the left half only makes the evaluation finish it before the
\* right half starts (here and in the two loops below it always succeeds).
RECURSIVE ScanLoop(_, _, _, _, _)
ScanLoop(st, ext, src, lo, hi) ==
  IF lo > hi THEN st
  ELSE IF lo = hi
       THEN [info |-> ParseLine(st.info, ext, src[lo], st.lineNum + 1), lineNum |-> st.lineNum + 1]
       ELSE LET mid == (lo + hi) \div 2
                left == ScanLoop(st, ext, src, lo, mid)
            IN IF left.lineNum = st.lineNum + (mid - lo + 1)
               THEN ScanLoop(left, ext, src, mid + 1, hi) ELSE left

parseFile(filePath, ext, file) ==
  LET empty == [path |-> <<>>, ext |-> "", lines |-> <<>>, imports |-> <<>>,
                exports |-> 0, lineCount |-> 0]
  IN IF file.err = "open" THEN [info |-> empty, err |-> TRUE]
     ELSE LET st == ScanLoop([info |-> [empty EXCEPT !.path = filePath, !.ext = ext], lineNum |-> 0],
                             ext, file.lines, 1, file.got)
          IN [info |-> [st.info EXCEPT !.lineCount = st.lineNum], err |-> file.err = "read"]

(***************************************************************************)
(* ARCH-002 checkGodObject.                                                *)
(***************************************************************************)
\* variant: the line threshold compared with >= instead of >
checkGodObjectInclusive(r, fi) ==
  IF fi.lineCount >= godFileThreshold /\ fi.exports >= godExportThreshold
  THEN Append(r, Finding("ARCH-002", "Medium", "Medium",
                         <<"God object/file detected", FormatInt(fi.lineCount), FormatInt(fi.exports)>>,
                         fi.path, 1,
                         [line_count |-> FormatInt(fi.lineCount),
                          export_count |-> FormatInt(fi.exports),
                          language |-> extToLanguage(fi.ext)]))
  ELSE r

checkGodObject(r, fi) ==
  IF fi.lineCount > godFileThreshold /\ fi.exports >= godExportThreshold
  THEN Append(r, Finding("ARCH-002", "Medium", "Medium",
                         <<"God object/file detected", FormatInt(fi.lineCount), FormatInt(fi.exports)>>,
                         fi.path, 1,
                         [line_count |-> FormatInt(fi.lineCount),
                          export_count |-> FormatInt(fi.exports),
                          language |-> extToLanguage(fi.ext)]))
  ELSE r

(***************************************************************************)
(* ARCH-003 checkSecurityMixing.                                           *)
(***************************************************************************)
CryptoRe(ext) ==
  CASE ext = ".go" -> reCryptoGo [] ext = ".py" -> reCryptoPy
    [] ext \in {".js", ".ts"} -> reCryptoJS [] OTHER -> {}

AuthRe(ext) ==
  CASE ext = ".go" -> reAuthGo [] ext = ".py" -> reAuthPy
    [] ext \in {".js", ".ts"} -> reAuthJS [] OTHER -> {}

\* variant: cryptoLine and authLine overwritten on every match (last match wins)
MixStepLast(s, ext, line, i) ==
  LET c == MatchString(CryptoRe(ext), line)
      a == MatchString(AuthRe(ext), line)
  IN [hasCrypto |-> s.hasCrypto \/ c,
      cryptoLine |-> IF c THEN i + 1 ELSE s.cryptoLine,
      hasAuth |-> s.hasAuth \/ a,
      authLine |-> IF a THEN i + 1 ELSE s.authLine,
      hasBizLogic |-> s.hasBizLogic \/ MatchString(reBizLogic, line),
      hasDBAccess |-> s.hasDBAccess \/ MatchString(reDBAccess, line),
      hasHTTPRoutes |-> s.hasHTTPRoutes \/ MatchString(reHTTPRoute, line)]

MixStep(s, ext, line, i) ==
  LET c == MatchString(CryptoRe(ext), line)
      a == MatchString(AuthRe(ext), line)
  IN [hasCrypto |-> s.hasCrypto \/ c,
      cryptoLine |-> IF c /\ s.cryptoLine = 0 THEN i + 1 ELSE s.cryptoLine,
      hasAuth |-> s.hasAuth \/ a,
      authLine |-> IF a /\ s.authLine = 0 THEN i + 1 ELSE s.authLine,
      hasBizLogic |-> s.hasBizLogic \/ MatchString(reBizLogic, line),
      hasDBAccess |-> s.hasDBAccess \/ MatchString(reDBAccess, line),
      hasHTTPRoutes |-> s.hasHTTPRoutes \/ MatchString(reHTTPRoute, line)]

\* for i, line := range fi.lines, over the indices lo..hi (0-based) in order
RECURSIVE MixLoop(_, _, _, _, _)
MixLoop(s, ext, lines, lo, hi) ==
  IF lo > hi THEN s
  ELSE IF lo = hi THEN MixStep(s, ext, lines[lo + 1], lo)
       ELSE LET mid == (lo + hi) \div 2
                left == MixLoop(s, ext, lines, lo, mid)
            IN IF left.cryptoLine <= mid + 1
               THEN MixLoop(left, ext, lines, mid + 1, hi) ELSE left

MixSignals(fi) ==
  MixLoop([hasCrypto |-> FALSE, cryptoLine |-> 0, hasAuth |-> FALSE, authLine |-> 0,
           hasBizLogic |-> FALSE, hasDBAccess |-> FALSE, hasHTTPRoutes |-> FALSE],
          fi.ext, fi.lines, 0, Len(fi.lines) - 1)

\* variant: the finding is anchored at cryptoLine without the authLine fallback
checkSecurityMixingNoFallback(r, fi) ==
  LET s == MixSignals(fi)
      securityCritical == s.hasCrypto \/ s.hasAuth
      businessMixed == s.hasBizLogic \/ s.hasDBAccess \/ s.hasHTTPRoutes
      detail == IF s.hasCrypto /\ s.hasAuth THEN "crypto/auth"
                ELSE IF s.hasAuth THEN "auth" ELSE "crypto"
  IN IF securityCritical /\ businessMixed
     THEN Append(r, Finding("ARCH-003", "High", "High",
                            <<"Security-critical code mixed with business logic", detail>>,
                            fi.path, s.cryptoLine,
                            [has_crypto |-> FormatBool(s.hasCrypto),
                             has_auth |-> FormatBool(s.hasAuth),
                             has_business_logic |-> FormatBool(s.hasBizLogic),
                             language |-> extToLanguage(fi.ext)]))
     ELSE r

checkSecurityMixing(r, fi) ==
  LET s == MixSignals(fi)
      securityCritical == s.hasCrypto \/ s.hasAuth
      businessMixed == s.hasBizLogic \/ s.hasDBAccess \/ s.hasHTTPRoutes
      reportLine == IF s.cryptoLine = 0 THEN s.authLine ELSE s.cryptoLine
      detail == IF s.hasCrypto /\ s.hasAuth THEN "crypto/auth"
                ELSE IF s.hasAuth THEN "auth" ELSE "crypto"
  IN IF securityCritical /\ businessMixed
     THEN Append(r, Finding("ARCH-003", "High", "High",
                            <<"Security-critical code mixed with business logic", detail>>,
                            fi.path, reportLine,
                            [has_crypto |-> FormatBool(s.hasCrypto),
                             has_auth |-> FormatBool(s.hasAuth),
                             has_business_logic |-> FormatBool(s.hasBizLogic),
                             language |-> extToLanguage(fi.ext)]))
     ELSE r

(***************************************************************************)
(* ARCH-004 checkMissingAbstraction.                                       *)
(***************************************************************************)
isHandler(fi) == \E i \in 1..Len(fi.lines) : MatchString(reHandlerFunc, fi.lines[i])

\* variant: at most one ARCH-004 finding per file
SQLStepCapped(r, fi, i) ==
  IF MatchString(reSQLInHandler, fi.lines[i + 1])
     /\ \A k \in 1..Len(r) : ~(r[k].ruleID = "ARCH-004" /\ r[k].filePath = fi.path)
  THEN Append(r, Finding("ARCH-004", "Low", "Medium",
                         <<"Missing abstraction layer", fi.lines[i + 1]>>,
                         fi.path, i + 1,
                         [language |-> extToLanguage(fi.ext)]))
  ELSE r

SQLStep(r, fi, i) ==
  IF MatchString(reSQLInHandler, fi.lines[i + 1])
  THEN Append(r, Finding("ARCH-004", "Low", "Medium",
                         <<"Missing abstraction layer", fi.lines[i + 1]>>,
                         fi.path, i + 1,
                         [language |-> extToLanguage(fi.ext)]))
  ELSE r

\* the second for i, line := range fi.lines, over the indices lo..hi (0-based)
RECURSIVE SQLLoop(_, _, _, _)
SQLLoop(r, fi, lo, hi) ==
  IF lo > hi THEN r
  ELSE IF lo = hi THEN SQLStep(r, fi, lo)
       ELSE LET mid == (lo + hi) \div 2
                left == SQLLoop(r, fi, lo, mid)
            IN IF Len(left) >= Len(r)
               THEN SQLLoop(left, fi, mid + 1, hi) ELSE left

checkMissingAbstraction(r, fi) ==
  IF ~isHandler(fi) THEN r ELSE SQLLoop(r, fi, 0, Len(fi.lines) - 1)

(***************************************************************************)
(* path/filepath and strings helpers on segment sequences.                 *)
(***************************************************************************)
Root == <<"ws">>

\* filepath.Base: last segment, "." for the empty path
Base(p) == IF p = <<>> THEN "." ELSE p[Len(p)]

\* filepath.Dir: all but the last segment, "." when nothing is left
Dir(p) == IF Len(p) <= 1 THEN <<".">> ELSE SubSeq(p, 1, Len(p) - 1)

\* filepath.Rel(root, path) for a path at or below root
Rel(root, path) ==
  IF path = root THEN <<".">> ELSE SubSeq(path, Len(root) + 1, Len(path))

\* strings.HasSuffix(module, "/" + pkg) for a one-segment pkg
HasSuffix(module, pkg) == Len(module) >= 2 /\ module[Len(module)] = pkg

\* filepath.Ext of the last segment
Ext(path) ==
  LET n == Base(path)
  IN CASE n \in {"x.go", "w.go", "f.go"} -> ".go"
       [] n \in {"y.py", "v.py", "f.py"} -> ".py"
       [] n \in {"z.go"} -> ".go"
       [] n \in {"f.js"} -> ".js"
       [] n \in {"f.ts"} -> ".ts"
       [] n \in {"notes.txt"} -> ".txt"
       [] OTHER -> ""

(***************************************************************************)
(* ARCH-001 checkCircularDeps.  order is the order in which this call's   *)
(* range over the importGraph map yields its keys.                         *)
(***************************************************************************)
RelPathOf(root, path) ==
  LET rel == Rel(root, path) IN IF rel = <<>> THEN path ELSE rel

\* variant: only the "/pkg" suffix test, without the filepath.Base comparison
ResolvesSuffixOnly(module, pkg) == HasSuffix(module, pkg)

Resolves(module, pkg) == Base(module) = pkg \/ HasSuffix(module, pkg)

ImportsBack(otherImports, myPkg) ==
  \E k \in 1..Len(otherImports) : Resolves(otherImports[k], myPkg)

\* variant: the loops nested the other way, graph entries outside and the
\* file's imports inside
RECURSIVE CircLoopMapFirst(_, _, _, _, _, _, _)
CircLoopMapFirst(fi, graph, order, relPath, i, j, seen) ==
  IF j > Len(order) THEN [found |-> FALSE, at |-> 0, seen |-> seen]
  ELSE IF i > Len(fi.imports) THEN CircLoopMapFirst(fi, graph, order, relPath, 1, j + 1, seen)
  ELSE LET imp == fi.imports[i]
           otherFile == order[j]
           otherPkg == Base(Dir(otherFile))
           myPkg == Base(Dir(relPath))
           seen1 == IF j = 1 THEN Append(seen, i) ELSE seen
       IN IF otherFile # relPath
             /\ Resolves(imp.module, otherPkg)
             /\ ImportsBack(graph[otherFile], myPkg)
          THEN [found |-> TRUE, at |-> i, seen |-> seen1]
          ELSE CircLoopMapFirst(fi, graph, order, relPath, i + 1, j, seen1)

RECURSIVE CircLoop(_, _, _, _, _, _, _)
CircLoop(fi, graph, order, relPath, i, j, seen) ==
  IF i > Len(fi.imports) THEN [found |-> FALSE, at |-> 0, seen |-> seen]
  ELSE IF j > Len(order) THEN CircLoop(fi, graph, order, relPath, i + 1, 1, seen)
  ELSE LET imp == fi.imports[i]
           otherFile == order[j]
           otherPkg == Base(Dir(otherFile))
           myPkg == Base(Dir(relPath))
           seen1 == IF j = 1 THEN Append(seen, i) ELSE seen
       IN IF otherFile # relPath
             /\ Resolves(imp.module, otherPkg)
             /\ ImportsBack(graph[otherFile], myPkg)
          THEN [found |-> TRUE, at |-> i, seen |-> seen1]
          ELSE CircLoop(fi, graph, order, relPath, i, j + 1, seen1)

CircScan(fi, graph, root, order) ==
  CircLoop(fi, graph, order, RelPathOf(root, fi.path), 1, 1, <<>>)

\* variant: no return after the first finding, one finding per import in a pair
RECURSIVE EveryPair(_, _, _, _, _, _)
EveryPair(r, fi, graph, root, order, i) ==
  IF i > Len(fi.imports) THEN r
  ELSE LET imp == fi.imports[i]
           one == [fi EXCEPT !.imports = <<imp>>]
       IN EveryPair(IF CircScan(one, graph, root, order).found
                    THEN Append(r, Finding("ARCH-001", "Medium", "High",
                                           <<"Circular dependency risk", RelPathOf(root, fi.path), imp.module>>,
                                           fi.path, imp.line,
                                           [imported_module |-> imp.module,
                                            language |-> extToLanguage(fi.ext)]))
                    ELSE r,
                    fi, graph, root, order, i + 1)

checkCircularDepsNoReturn(r, fi, graph, root, order) == EveryPair(r, fi, graph, root, order, 1)

checkCircularDeps(r, fi, graph, root, order) ==
  LET c == CircScan(fi, graph, root, order)
      imp == fi.imports[c.at]
  IN IF c.found
     THEN Append(r, Finding("ARCH-001", "Medium", "High",
                            <<"Circular dependency risk", RelPathOf(root, fi.path), imp.module>>,
                            fi.path, imp.line,
                            [imported_module |-> imp.module,
                             language |-> extToLanguage(fi.ext)]))
     ELSE r

(***************************************************************************)
(* Analyzer harness: one file is parsed and the three per-file analyzers  *)
(* are applied to its summary in the order of handleScan's loop.           *)
(***************************************************************************)
SeqsUpTo(S, n) == UNION {[1..k -> S] : k \in 0..n}

RuleLines ==
  {"", "\t\"crypto/sha256\"", "func Login(w, r) {", "func HandleGetUsers(w, r) {",
   "\trows := db.Query(\"SELECT id FROM users\")", "\tuser := repo.Find(id)",
   "\thttp.HandleFunc(\"/users\", h)", "import hashlib", "def login(request):",
   "const crypto = require('crypto')", "function login(req, res) {",
   "app.get('/users', listUsers)"}

\* files around the god-object thresholds: e export lines followed by blank lines
BigFiles ==
  {[i \in 1..t |-> IF i <= e THEN x ELSE ""] :
     x \in {"type Config struct {", "def user_view(request):", "export function getUser(id) {"},
     e \in {9, 10, 11, 12}, t \in {500, 501, 520}}

RuleFiles == SeqsUpTo(RuleLines, MaxLines) \cup BigFiles

EmptyGraph == [k \in {} |-> <<>>]

NoResult == [status |-> "none", findings |-> <<>>]

InitRules ==
  /\ \E n \in {"f.go", "f.py", "f.js", "f.ts"}, ls \in RuleFiles :
       disk = [p \in {Root \o <<n>>} |-> [kind |-> "file", lines |-> ls, err |-> "none", got |-> Len(ls)]]
  /\ workspaceRoot = Root
  /\ ctx = "live"
  /\ pc = "parse"
  /\ todo = <<>>
  /\ walkErr = "nil"
  /\ files = <<>>
  /\ importGraph = EmptyGraph
  /\ resp = <<>>
  /\ result = NoResult
  /\ idx = 0
  /\ probe = <<>>

RParse ==
  /\ pc = "parse"
  /\ \E p \in DOMAIN disk :
       LET r == parseFile(p, Ext(p), disk[p])
       IN /\ ~r.err
          /\ files' = <<r.info>>
  /\ pc' = "god"
  /\ UNCHANGED <<workspaceRoot, disk, ctx, todo, walkErr, importGraph, resp, result, idx, probe>>

RGod ==
  /\ pc = "god"
  /\ resp' = checkGodObject(resp, files[1])
  /\ pc' = "sec"
  /\ UNCHANGED <<workspaceRoot, disk, ctx, todo, walkErr, files, importGraph, result, idx, probe>>

RSec ==
  /\ pc = "sec"
  /\ resp' = checkSecurityMixing(resp, files[1])
  /\ pc' = "abs"
  /\ UNCHANGED <<workspaceRoot, disk, ctx, todo, walkErr, files, importGraph, result, idx, probe>>

RAbs ==
  /\ pc = "abs"
  /\ resp' = checkMissingAbstraction(resp, files[1])
  /\ pc' = "ruled"
  /\ UNCHANGED <<workspaceRoot, disk, ctx, todo, walkErr, files, importGraph, result, idx, probe>>

NextRules == RParse \/ RGod \/ RSec \/ RAbs

SpecRules == InitRules /\ [][NextRules]_vars

(***************************************************************************)
(* Properties of the per-file analyzers (specification SpecRules).         *)
(***************************************************************************)
OfRule(r, rule) == SelectSeq(r, LAMBDA f : f.ruleID = rule)

\* the value of a decimal digit string
RECURSIVE DecimalValue(_)
DecimalValue(d) ==
  IF d = <<>> THEN 0 ELSE 10 * DecimalValue(SubSeq(d, 1, Len(d) - 1)) + d[Len(d)]

SetMin(S) == CHOOSE x \in S : \A y \in S : x <= y

\* the one file of the harness, as stored on disk
TheFile == disk[CHOOSE p \in DOMAIN disk : TRUE]
TheExt == Ext(CHOOSE p \in DOMAIN disk : TRUE)

ExportRe(ext) ==
  CASE ext = ".go" -> reGoExport [] ext = ".py" -> rePyExport \cup rePyAllExport
    [] ext \in {".js", ".ts"} -> reJSExport [] OTHER -> {}

LinesIn(re) == {i \in 1..Len(TheFile.lines) : TheFile.lines[i] \in re}

\* C1: once checkGodObject has run on a parsed file, the response holds exactly
\* one ARCH-002 finding if the file has more than 500 lines and at least 10
\* export lines, and none otherwise; the finding is anchored at line 1 and its
\* line_count / export_count metadata are the decimal forms of the two counts.
C1_GodObjectIff ==
  pc \in {"sec", "abs", "ruled"} =>
    LET g == OfRule(resp, "ARCH-002")
        n == Len(TheFile.lines)
        e == Cardinality(LinesIn(ExportRe(TheExt)))
    IN /\ Len(g) = IF n > 500 /\ e >= 10 THEN 1 ELSE 0
       /\ (n = 500 /\ e = 10) => Len(g) = 0
       /\ (n = 501 /\ e = 10) => Len(g) = 1
       /\ (n = 501 /\ e = 9) => Len(g) = 0
       /\ \A k \in 1..Len(g) :
            /\ g[k].startLine = 1 /\ g[k].endLine = 1
            /\ DecimalValue(g[k].metadata.line_count) = n
            /\ DecimalValue(g[k].metadata.export_count) = e

C1_Witness ==
  /\ pc = "ruled"
  /\ Len(TheFile.lines) = 501
  /\ Cardinality(LinesIn(ExportRe(TheExt))) = 10
  /\ Len(OfRule(resp, "ARCH-002")) = 1

\* C2: once checkSecurityMixing has run on a parsed file, the response holds one
\* ARCH-003 finding if some line matches the crypto or auth pattern of the
\* file's language and some line matches the business, data-access or route
\* pattern, and none otherwise; the finding is anchored at the first crypto
\* line, or at the first auth line when no line matches crypto.
C2_SecurityMixingIff ==
  pc \in {"abs", "ruled"} =>
    LET s == OfRule(resp, "ARCH-003")
        crypto == LinesIn(CryptoRe(TheExt))
        auth == LinesIn(AuthRe(TheExt))
        mixed == LinesIn(reBizLogic \cup reDBAccess \cup reHTTPRoute)
    IN /\ Len(s) = IF (crypto # {} \/ auth # {}) /\ mixed # {} THEN 1 ELSE 0
       /\ \A k \in 1..Len(s) :
            /\ s[k].startLine = IF crypto # {} THEN SetMin(crypto) ELSE SetMin(auth)
            /\ s[k].endLine = s[k].startLine

\* a finding for a file whose first auth line precedes its first crypto line
C2_Witness ==
  /\ pc = "ruled"
  /\ Len(OfRule(resp, "ARCH-003")) = 1
  /\ LinesIn(CryptoRe(TheExt)) # {}
  /\ LinesIn(AuthRe(TheExt)) # {}
  /\ SetMin(LinesIn(AuthRe(TheExt))) < SetMin(LinesIn(CryptoRe(TheExt)))

\* C3: once checkMissingAbstraction has run on a parsed file, the response holds
\* no ARCH-004 finding if no line matches the handler pattern; otherwise it
\* holds exactly one ARCH-004 finding per line matching the direct data-access
\* pattern, anchored at that line, in increasing line order.
C3_MissingAbstractionPerLine ==
  pc = "ruled" =>
    LET m == OfRule(resp, "ARCH-004")
        handler == LinesIn(reHandlerFunc)
        sql == LinesIn(reSQLInHandler)
    IN /\ handler = {} => Len(m) = 0
       /\ handler # {} =>
            /\ Len(m) = Cardinality(sql)
            /\ {m[k].startLine : k \in 1..Len(m)} = sql
            /\ \A k \in 1..Len(m) : m[k].endLine = m[k].startLine
            /\ \A j, k \in 1..Len(m) : j < k => m[j].startLine < m[k].startLine

C3_Witness ==
  /\ pc = "ruled"
  /\ LinesIn(reHandlerFunc) # {}
  /\ Cardinality(LinesIn(reSQLInHandler)) = 2
  /\ Len(OfRule(resp, "ARCH-004")) = 2

(***************************************************************************)
(* handleScan: the walk.                                                   *)
(***************************************************************************)
\* variant: the import list of a file is overwritten by each import
AddImportsOverwrite(graph, relPath, imports, k) ==
  IF imports = <<>> THEN graph
  ELSE [q \in DOMAIN graph \cup {relPath} |->
          IF q = relPath THEN <<imports[Len(imports)].module>> ELSE graph[q]]

\* importGraph[relPath] = append(importGraph[relPath], imp.module) for imports k..
RECURSIVE AddImports(_, _, _, _)
AddImports(graph, relPath, imports, k) ==
  IF k > Len(imports) THEN graph
  ELSE LET old == IF relPath \in DOMAIN graph THEN graph[relPath] ELSE <<>>
           new == [q \in DOMAIN graph \cup {relPath} |->
                     IF q = relPath THEN Append(old, imports[k].module) ELSE graph[q]]
       IN AddImports(new, relPath, imports, k + 1)

\* the callback handed to filepath.WalkDir, called for path with the error err;
\* acc is [files, graph]; the result carries the returned error and the new acc
\* variant: a parse error is returned to WalkDir instead of skipping the file
WalkFnAbortOnParseError(path, err, acc) ==
  IF err THEN [ret |-> "nil", files |-> acc.files, graph |-> acc.graph]
  ELSE IF ctx # "live" THEN [ret |-> ctx, files |-> acc.files, graph |-> acc.graph]
  ELSE IF disk[path].kind = "dir"
       THEN [ret |-> IF Base(path) \in skippedDirs THEN "SkipDir" ELSE "nil",
             files |-> acc.files, graph |-> acc.graph]
  ELSE IF Ext(path) \notin sourceExtensions
       THEN [ret |-> "nil", files |-> acc.files, graph |-> acc.graph]
  ELSE LET r == parseFile(path, Ext(path), disk[path])
       IN IF r.err THEN [ret |-> "parseErr", files |-> acc.files, graph |-> acc.graph]
          ELSE [ret |-> "nil",
                files |-> Append(acc.files, r.info),
                graph |-> AddImports(acc.graph, RelPathOf(workspaceRoot, path), r.info.imports, 1)]

\* variant: the skip-set is consulted for the directories of the root only
WalkFnSkipTopLevelOnly(path, err, acc) ==
  IF err THEN [ret |-> "nil", files |-> acc.files, graph |-> acc.graph]
  ELSE IF ctx # "live" THEN [ret |-> ctx, files |-> acc.files, graph |-> acc.graph]
  ELSE IF disk[path].kind = "dir"
       THEN [ret |-> IF Base(path) \in skippedDirs /\ Len(path) <= Len(workspaceRoot) + 1
                     THEN "SkipDir" ELSE "nil",
             files |-> acc.files, graph |-> acc.graph]
  ELSE IF Ext(path) \notin sourceExtensions
       THEN [ret |-> "nil", files |-> acc.files, graph |-> acc.graph]
  ELSE LET r == parseFile(path, Ext(path), disk[path])
       IN IF r.err THEN [ret |-> "nil", files |-> acc.files, graph |-> acc.graph]
          ELSE [ret |-> "nil",
                files |-> Append(acc.files, r.info),
                graph |-> AddImports(acc.graph, RelPathOf(workspaceRoot, path), r.info.imports, 1)]

WalkFn(path, err, acc) ==
  IF err THEN [ret |-> "nil", files |-> acc.files, graph |-> acc.graph]
  ELSE IF ctx # "live" THEN [ret |-> ctx, files |-> acc.files, graph |-> acc.graph]
  ELSE IF disk[path].kind = "dir"
       THEN [ret |-> IF Base(path) \in skippedDirs THEN "SkipDir" ELSE "nil",
             files |-> acc.files, graph |-> acc.graph]
  ELSE IF Ext(path) \notin sourceExtensions
       THEN [ret |-> "nil", files |-> acc.files, graph |-> acc.graph]
  ELSE LET r == parseFile(path, Ext(path), disk[path])
       IN IF r.err THEN [ret |-> "nil", files |-> acc.files, graph |-> acc.graph]
          ELSE [ret |-> "nil",
                files |-> Append(acc.files, r.info),
                graph |-> AddImports(acc.graph, RelPathOf(workspaceRoot, path), r.info.imports, 1)]

\* byte order of the entry names, as os.ReadDir sorts them
NameOrder ==
  <<".git", ".venv", "__pycache__", "a", "b", "build", "c", "dist", "f.js", "f.ts", "lib",
    "node_modules", "notes.txt", "v.py", "vendor", "w.go", "x.go", "y.py", "z.go">>

Rank(n) == CHOOSE k \in 1..Len(NameOrder) : NameOrder[k] = n

RECURSIVE SortByName(_)
SortByName(S) ==
  IF S = {} THEN <<>>
  ELSE LET first == CHOOSE p \in S : \A q \in S : Rank(Base(p)) <= Rank(Base(q))
       IN <<first>> \o SortByName(S \ {first})

\* os.ReadDir(path) joined with path
ReadDir(path) ==
  SortByName({q \in DOMAIN disk : Len(q) = Len(path) + 1 /\ SubSeq(q, 1, Len(path)) = path})

\* lines 93-102: an empty workspace root returns the empty response
ReturnEmptyRoot ==
  /\ pc = "start"
  /\ workspaceRoot = <<>>
  /\ result' = [status |-> "ok", findings |-> resp]
  /\ pc' = "done"
  /\ UNCHANGED <<workspaceRoot, disk, ctx, todo, walkErr, files, importGraph, resp, idx, probe>>

\* line 109: filepath.WalkDir(workspaceRoot, ...) starts at the root
BeginWalk ==
  /\ pc = "start"
  /\ workspaceRoot # <<>>
  /\ pc' = "walk"
  /\ todo' = <<workspaceRoot>>
  /\ UNCHANGED <<workspaceRoot, disk, ctx, walkErr, files, importGraph, resp, result, idx, probe>>

\* the caller's context is cancelled or its deadline passes while the walk runs
Cancel ==
  /\ pc = "walk"
  /\ todo # <<>>
  /\ ctx = "live"
  /\ ctx' \in {"Canceled", "DeadlineExceeded"}
  /\ UNCHANGED <<workspaceRoot, disk, pc, todo, walkErr, files, importGraph, resp, result, idx, probe>>

\* WalkDir hands the next path to the callback: a root that cannot be stat'ed is
\* passed with the error; SkipDir prunes a directory; any other error ends the
\* walk and is returned; a directory accepted by the callback is read and its
\* entries are visited next, in name order
WalkDirStep ==
  /\ pc = "walk"
  /\ todo # <<>>
  /\ LET path == Head(todo)
         r == WalkFn(path, path \notin DOMAIN disk, [files |-> files, graph |-> importGraph])
     IN /\ files' = r.files
        /\ importGraph' = r.graph
        /\ IF r.ret \notin {"nil", "SkipDir"}
           THEN walkErr' = r.ret /\ todo' = <<>>
           ELSE /\ walkErr' = walkErr
                /\ todo' = IF r.ret = "nil" /\ path \in DOMAIN disk /\ disk[path].kind = "dir"
                           THEN ReadDir(path) \o Tail(todo)
                           ELSE Tail(todo)
  /\ UNCHANGED <<workspaceRoot, disk, ctx, pc, resp, result, idx, probe>>

\* lines 144-146: WalkDir has returned
AfterWalk ==
  /\ pc = "walk"
  /\ todo = <<>>
  /\ IF walkErr # "nil" /\ walkErr # "Canceled"
     THEN /\ result' = [status |-> "error", findings |-> <<>>]
          /\ pc' = "done"
          /\ idx' = idx
     ELSE /\ pc' = "analyze"
          /\ idx' = 1
          /\ result' = result
  /\ UNCHANGED <<workspaceRoot, disk, ctx, todo, walkErr, files, importGraph, resp, probe>>

(***************************************************************************)
(* handleScan: the analysis loop and the return.                           *)
(***************************************************************************)
Perms(S) == {f \in [1..Cardinality(S) -> S] : \A i, j \in 1..Cardinality(S) : i # j => f[i] # f[j]}

\* lines 149-161: one iteration of for _, fi := range files
Analyze ==
  /\ pc = "analyze"
  /\ idx <= Len(files)
  /\ \E order \in Perms(DOMAIN importGraph) :
       LET fi == files[idx]
           r1 == checkCircularDeps(resp, fi, importGraph, workspaceRoot, order)
           r2 == checkGodObject(r1, fi)
           r3 == checkSecurityMixing(r2, fi)
       IN /\ resp' = checkMissingAbstraction(r3, fi)
          /\ probe' = Append(probe, CircScan(fi, importGraph, workspaceRoot, order))
  /\ idx' = idx + 1
  /\ UNCHANGED <<workspaceRoot, disk, ctx, pc, todo, walkErr, files, importGraph, result>>

\* line 163: return resp.Build(), nil
Build ==
  /\ pc = "analyze"
  /\ idx > Len(files)
  /\ result' = [status |-> "ok", findings |-> resp]
  /\ pc' = "done"
  /\ UNCHANGED <<workspaceRoot, disk, ctx, todo, walkErr, files, importGraph, resp, idx, probe>>

(***************************************************************************)
(* Workspaces of the scan specification.                                   *)
(***************************************************************************)
DirEntry == [kind |-> "dir", lines |-> <<>>, err |-> "none", got |-> 0]

FileEntry(ls, e, g) == [kind |-> "file", lines |-> ls, err |-> e, got |-> g]

Readable(ls) == FileEntry(ls, "none", Len(ls))

HotGo ==
  <<"\t\"crypto/sha256\"", "\t\"example.com/m/b\"", "func HandleGetUsers(w, r) {",
    "\trows := db.Query(\"SELECT id FROM users\")">>

HotPy ==
  <<"from b import thing", "import a", "import hashlib", "def user_view(request):",
    "\trows := db.Query(\"SELECT id FROM users\")">>

\* a/x.go
XFiles ==
  {Readable(<<"\t\"example.com/m/b\"">>), Readable(<<"type Config struct {">>), Readable(HotGo),
   FileEntry(HotGo, "open", 0), FileEntry(HotGo, "read", 2)}

\* b/y.py
YFiles ==
  {Readable(<<"import a">>), Readable(<<"def login(request):">>), Readable(HotPy),
   FileEntry(HotPy, "open", 0), FileEntry(HotPy, "read", 3)}

\* the tree: a/x.go and b/y.py; optionally a directory a/<nested>/ holding w.go,
\* a directory <top>/ holding v.py, and b/notes.txt
Tree(x, y, nested, top, notes) ==
  {<<Root, DirEntry>>, <<Root \o <<"a">>, DirEntry>>, <<Root \o <<"b">>, DirEntry>>,
   <<Root \o <<"a", "x.go">>, x>>, <<Root \o <<"b", "y.py">>, y>>}
  \cup (IF nested = "none" THEN {}
        ELSE {<<Root \o <<"a", nested>>, DirEntry>>,
              <<Root \o <<"a", nested, "w.go">>, Readable(HotGo)>>})
  \cup (IF top = "none" THEN {}
        ELSE {<<Root \o <<top>>, DirEntry>>, <<Root \o <<top, "v.py">>, Readable(HotPy)>>})
  \cup (IF notes THEN {<<Root \o <<"b", "notes.txt">>, Readable(HotGo)>>} ELSE {})

DiskOf(entries) ==
  [p \in {e[1] : e \in entries} |-> (CHOOSE e \in entries : e[1] = p)[2]]

Disks ==
  {DiskOf(Tree(x, y, nested, top, notes)) :
     x \in XFiles, y \in YFiles, nested \in {"none", "lib"} \cup skippedDirs,
     top \in {"none", "c", "dist"}, notes \in BOOLEAN}
  \cup {DiskOf({})}

Init ==
  /\ workspaceRoot \in {<<>>, Root}
  /\ disk \in Disks
  /\ workspaceRoot = <<>> => disk = DiskOf({})
  /\ ctx = "live"
  /\ pc = "start"
  /\ todo = <<>>
  /\ walkErr = "nil"
  /\ files = <<>>
  /\ importGraph = EmptyGraph
  /\ resp = <<>>
  /\ result = NoResult
  /\ idx = 0
  /\ probe = <<>>

Next ==
  \/ ReturnEmptyRoot
  \/ BeginWalk
  \/ Cancel
  \/ WalkDirStep
  \/ AfterWalk
  \/ Analyze
  \/ Build

Spec == Init /\ [][Next]_vars

(***************************************************************************)
(* Import workspaces: a/x.go, b/y.py and c/z.go made of import lines only, *)
(* scanned without cancellation (specification SpecImports).               *)
(***************************************************************************)
GoImportLines == {"\t\"example.com/m/a\"", "\t\"example.com/m/b\"", "\t\"c\""}

PyImportLines == {"import a", "from b import thing", "import hashlib"}

ImportDisks ==
  {DiskOf({<<Root, DirEntry>>, <<Root \o <<"a">>, DirEntry>>, <<Root \o <<"b">>, DirEntry>>,
           <<Root \o <<"c">>, DirEntry>>,
           <<Root \o <<"a", "x.go">>, Readable(x)>>,
           <<Root \o <<"b", "y.py">>, Readable(y)>>,
           <<Root \o <<"c", "z.go">>, Readable(z)>>}) :
     x \in SeqsUpTo(GoImportLines, MaxImports),
     y \in SeqsUpTo(PyImportLines, MaxImports),
     z \in SeqsUpTo(GoImportLines, MaxImports)}

InitImports ==
  /\ workspaceRoot = Root
  /\ disk \in ImportDisks
  /\ ctx = "live"
  /\ pc = "start"
  /\ todo = <<>>
  /\ walkErr = "nil"
  /\ files = <<>>
  /\ importGraph = EmptyGraph
  /\ resp = <<>>
  /\ result = NoResult
  /\ idx = 0
  /\ probe = <<>>

NextImports == BeginWalk \/ WalkDirStep \/ AfterWalk \/ Analyze \/ Build

SpecImports == InitImports /\ [][NextImports]_vars

(***************************************************************************)
(* Properties of the scan.                                                 *)
(***************************************************************************)
FilesOnDisk == {p \in DOMAIN disk : disk[p].kind = "file"}

ParsedPaths == {files[i].path : i \in 1..Len(files)}

FindingPaths == {resp[k].filePath : k \in 1..Len(resp)}
                  \cup {result.findings[k].filePath : k \in 1..Len(result.findings)}

About(r, p) == SelectSeq(r, LAMBDA f : f.filePath = p)

LastSegment(m) == m[Len(m)]

\* the name of the directory holding the file of workspace-relative path rel
PackageOf(rel) == rel[Len(rel) - 1]

\* the file at path p has an import line whose module ends in the segment e
ImportsSegment(p, e) ==
  \E i \in 1..Len(disk[p].lines) :
    /\ disk[p].lines[i] \in reGoImport \cup rePyImport
    /\ LastSegment(Submatch(disk[p].lines[i])) = e

PathAX == Root \o <<"a", "x.go">>
PathBY == Root \o <<"b", "y.py">>

TwoFileCycle ==
  /\ FilesOnDisk = {PathAX, PathBY}
  /\ disk[PathAX].err = "none" /\ disk[PathBY].err = "none"
  /\ ImportsSegment(PathAX, "b")
  /\ ImportsSegment(PathBY, "a")

\* C4 as claimed: a completed scan of two files in sibling directories a/ and b/
\* that import each other's package reports exactly one ARCH-001 finding.
C4_OneFindingInTotal ==
  (pc = "done" /\ walkErr = "nil" /\ TwoFileCycle) =>
    /\ result.status = "ok"
    /\ Len(OfRule(result.findings, "ARCH-001")) = 1

\* C4 amended: a completed scan of two files in sibling directories a/ and b/
\* that import each other's package reports exactly two ARCH-001 findings, one
\* against each of the two files.
C4_OneFindingPerFile ==
  (pc = "done" /\ walkErr = "nil" /\ TwoFileCycle) =>
    /\ result.status = "ok"
    /\ Len(OfRule(result.findings, "ARCH-001")) = 2
    /\ Len(OfRule(About(result.findings, PathAX), "ARCH-001")) = 1
    /\ Len(OfRule(About(result.findings, PathBY), "ARCH-001")) = 1

C4_Witness ==
  /\ pc = "done"
  /\ walkErr = "nil"
  /\ TwoFileCycle
  /\ Len(OfRule(result.findings, "ARCH-001")) = 2

\* import i of the parsed file fi forms a mutual-import pair with another entry
\* of the import graph
FormsPair(fi, i) ==
  LET me == Rel(workspaceRoot, fi.path)
  IN \E q \in DOMAIN importGraph \ {me} :
       /\ LastSegment(fi.imports[i].module) = PackageOf(q)
       /\ \E k \in 1..Len(importGraph[q]) : LastSegment(importGraph[q][k]) = PackageOf(me)

\* C5: no file gets more than one ARCH-001 finding in a run; a finding is
\* anchored at the line of an import of the file that forms a mutual pair,
\* that import is the last one checkCircularDeps examined, and without a
\* finding no import of the file forms a pair.
C5_AtMostOnePerFile ==
  \A n \in 1..Len(probe) :
    LET fi == files[n]
        c == OfRule(About(resp, fi.path), "ARCH-001")
    IN /\ Len(c) <= 1
       /\ Len(c) = 1 =>
            \E i \in 1..Len(fi.imports) :
              /\ c[1].startLine = fi.imports[i].line
              /\ c[1].endLine = fi.imports[i].line
              /\ c[1].metadata.imported_module = fi.imports[i].module
              /\ FormsPair(fi, i)
              /\ probe[n].seen = [k \in 1..i |-> k]
       /\ Len(c) = 0 => \A i \in 1..Len(fi.imports) : ~FormsPair(fi, i)

\* a/x.go imports b and c, both of which import a back: one finding, at line 1
C5_Witness ==
  /\ pc = "done"
  /\ Len(files) = 3
  /\ Len(files[1].imports) = 2
  /\ FormsPair(files[1], 1)
  /\ FormsPair(files[1], 2)
  /\ files[1].imports[1].module # files[1].imports[2].module
  /\ Len(OfRule(About(result.findings, files[1].path), "ARCH-001")) = 1
  /\ OfRule(About(result.findings, files[1].path), "ARCH-001")[1].startLine = 1

\* C6 as claimed: when the walk ends on a cancellation (signal or deadline),
\* handleScan returns a successful result over the files collected so far if at
\* least one file was collected, and an error if none was.
C6_PartialResultsOnCancel ==
  (pc = "done" /\ walkErr \in {"Canceled", "DeadlineExceeded"}) =>
    IF Len(files) >= 1
    THEN /\ result.status = "ok"
         /\ Len(probe) = Len(files)
         /\ result.findings = resp
    ELSE result.status = "error"

\* C7 as claimed: a scan of a workspace root that does not exist ends in an
\* error, not in a successful empty list of findings.
C7_MissingRootIsError ==
  (pc = "done" /\ workspaceRoot # <<>> /\ workspaceRoot \notin DOMAIN disk) =>
    result.status = "error"

Unreadable == {p \in FilesOnDisk : disk[p].err # "none"}

\* path p lies beneath a directory (below the root) named in the skip-set
BeneathSkipped(p) ==
  \E k \in (Len(Root) + 1)..(Len(p) - 1) :
    p[k] \in {".git", "vendor", "node_modules", "__pycache__", ".venv", "dist", "build"}

Recognized ==
  {p \in FilesOnDisk : Ext(p) \in {".go", ".py", ".js", ".ts"} /\ ~BeneathSkipped(p)}

\* the findings of the three per-file analyzers for the parsed file of path p
PerFileFindings(p) ==
  LET fi == files[CHOOSE i \in 1..Len(files) : files[i].path = p]
  IN checkMissingAbstraction(checkSecurityMixing(checkGodObject(<<>>, fi), fi), fi)

NotCircular(r) == SelectSeq(r, LAMBDA f : f.ruleID # "ARCH-001")

\* C8: a file that cannot be opened or whose read fails is never among the
\* file summaries, the import graph keys or the finding paths; when the walk
\* is not cancelled every other recognized file is parsed and analyzed and the
\* result is a success; the only error handleScan returns is a deadline.
C8_UnreadableSkipped ==
  /\ \A p \in Unreadable :
       /\ p \notin ParsedPaths
       /\ Rel(workspaceRoot, p) \notin DOMAIN importGraph
       /\ p \notin FindingPaths
  /\ (pc = "done" /\ workspaceRoot # <<>> /\ walkErr = "nil") =>
       /\ result.status = "ok"
       /\ ParsedPaths = Recognized \ Unreadable
       /\ \A p \in Recognized \ Unreadable :
            NotCircular(About(result.findings, p)) = PerFileFindings(p)
  /\ result.status = "error" => walkErr = "DeadlineExceeded"

\* a/x.go is unreadable, b/y.py is parsed after it and has findings
C8_Witness ==
  /\ pc = "done"
  /\ PathAX \in Unreadable
  /\ disk[PathAX].err = "read"
  /\ PathBY \in ParsedPaths
  /\ result.status = "ok"
  /\ Len(About(result.findings, PathBY)) >= 2

\* C9: no path beneath a skip-set directory, at any depth, is ever handed to
\* the callback, parsed, entered in the import graph or named by a finding,
\* and every parsed file has one of the four source extensions.
C9_SkippedDirsPruned ==
  /\ \A k \in 1..Len(todo) : ~BeneathSkipped(todo[k])
  /\ \A p \in ParsedPaths \cup FindingPaths :
       ~BeneathSkipped(p) /\ Ext(p) \in {".go", ".py", ".js", ".ts"}
  /\ \A q \in DOMAIN importGraph :
       ~BeneathSkipped(workspaceRoot \o q) /\ Ext(q) \in {".go", ".py", ".js", ".ts"}

\* a completed scan of a tree with a source file in a nested skip-set directory
\* and a non-source file, in which other files were parsed
C9_Witness ==
  /\ pc = "done"
  /\ result.status = "ok"
  /\ \E p \in FilesOnDisk : BeneathSkipped(p) /\ Len(p) = Len(Root) + 3
  /\ \E p \in FilesOnDisk : Ext(p) = ".txt"
  /\ Cardinality(ParsedPaths) >= 2
  /\ Len(result.findings) >= 2

\* C10 as claimed: after the walk every parsed file is a key of the import graph.
C10_EntryForEveryParsedFile ==
  pc \in {"analyze", "done"} =>
    \A p \in ParsedPaths : Rel(workspaceRoot, p) \in DOMAIN importGraph

\* C10 amended: after the walk the keys of the import graph are exactly the
\* parsed files with at least one import, each mapped to the modules of its
\* imports in order; a parsed file without imports has no entry.
C10_EntryForEveryImportingFile ==
  pc \in {"analyze", "done"} =>
    /\ \A i \in 1..Len(files) :
         LET rel == Rel(workspaceRoot, files[i].path)
         IN /\ rel \in DOMAIN importGraph <=> files[i].imports # <<>>
            /\ rel \in DOMAIN importGraph =>
                 importGraph[rel] = [k \in 1..Len(files[i].imports) |-> files[i].imports[k].module]
    /\ \A q \in DOMAIN importGraph : workspaceRoot \o q \in ParsedPaths

\* after the walk: a parsed file with two imports and a parsed file with none
C10_Witness ==
  /\ pc = "analyze"
  /\ \E i, j \in 1..Len(files) :
       /\ Len(files[i].imports) >= 2
       /\ files[j].imports = <<>>
       /\ Rel(workspaceRoot, files[i].path) \in DOMAIN importGraph
       /\ Rel(workspaceRoot, files[j].path) \notin DOMAIN importGraph

(***************************************************************************)
(* Mixed-language workspaces: a/x.go, b/y.py, c/f.js and c/f.ts, scanned   *)
(* with cancellation (specification SpecLangs).                            *)
(***************************************************************************)
\* HotGo followed by ten export lines and blank lines, 501 lines in all
GodGo == HotGo \o [i \in 1..497 |-> IF i <= 10 THEN "type Config struct {" ELSE ""]

HotJS == <<"const crypto = require('crypto')", "export function getUser(id) {">>

HotTS ==
  <<"function login(req, res) {", "app.get('/users', listUsers)",
    "\trows := db.Query(\"SELECT id FROM users\")">>

LangDisks ==
  {DiskOf({<<Root, DirEntry>>, <<Root \o <<"a">>, DirEntry>>, <<Root \o <<"b">>, DirEntry>>,
           <<Root \o <<"c">>, DirEntry>>,
           <<Root \o <<"a", "x.go">>, x>>, <<Root \o <<"b", "y.py">>, y>>,
           <<Root \o <<"c", "f.js">>, j>>, <<Root \o <<"c", "f.ts">>, t>>}) :
     x \in {Readable(HotGo), Readable(GodGo), Readable(<<"func Login(w, r) {">>)},
     y \in {Readable(HotPy), Readable(<<"import a">>), FileEntry(HotPy, "read", 3)},
     j \in {Readable(HotJS), Readable(<<>>)},
     t \in {Readable(HotTS), FileEntry(HotTS, "open", 0)}}
  \cup {DiskOf({})}

InitLangs ==
  /\ workspaceRoot \in {<<>>, Root}
  /\ disk \in LangDisks
  /\ workspaceRoot = <<>> => disk = DiskOf({})
  /\ ctx = "live"
  /\ pc = "start"
  /\ todo = <<>>
  /\ walkErr = "nil"
  /\ files = <<>>
  /\ importGraph = EmptyGraph
  /\ resp = <<>>
  /\ result = NoResult
  /\ idx = 0
  /\ probe = <<>>

SpecLangs == InitLangs /\ [][Next]_vars

AllFindings == {resp[k] : k \in 1..Len(resp)} \cup {result.findings[k] : k \in 1..Len(result.findings)}

\* C11: every finding added to the response or returned has a one-line range
\* starting at line 1 or later, names a file parsed in this run, carries one of
\* the four rule identifiers and a language among go, python, javascript and
\* typescript.
C11_FindingShape ==
  \A f \in AllFindings :
    /\ f.startLine = f.endLine
    /\ f.startLine >= 1
    /\ f.filePath \in ParsedPaths
    /\ f.ruleID \in {"ARCH-001", "ARCH-002", "ARCH-003", "ARCH-004"}
    /\ f.metadata.language \in {"go", "python", "javascript", "typescript"}

\* a returned result holding findings of all four rules and all four languages,
\* one of them for a file with an auth line and no crypto line
C11_Witness ==
  /\ pc = "done"
  /\ {f.ruleID : f \in AllFindings} = {"ARCH-001", "ARCH-002", "ARCH-003", "ARCH-004"}
  /\ {f.metadata.language : f \in AllFindings} = {"go", "python", "javascript", "typescript"}
  /\ \E f \in AllFindings : f.ruleID = "ARCH-003" /\ f.metadata.has_crypto = "false"

(***************************************************************************)
(* Properties of parseFile and of checkCircularDeps.                       *)
(***************************************************************************)
ImportRe(ext) ==
  CASE ext = ".go" -> reGoImport [] ext = ".py" -> rePyImport
    [] ext \in {".js", ".ts"} -> reJSImport [] OTHER -> {}

\* the shape C12 asks of a file summary
SummaryShape(info) ==
  /\ info.lineCount = Len(info.lines)
  /\ \A k \in 1..Len(info.imports) :
       /\ info.imports[k].line \in 1..info.lineCount
       /\ info.lines[info.imports[k].line] \in ImportRe(info.ext)
  /\ \A j, k \in 1..Len(info.imports) : j < k => info.imports[j].line < info.imports[k].line

\* C12: the summary parseFile returns for a file has lineCount equal to the
\* number of entries of lines (all lines of a file read to its end), every
\* import reference at a line within 1..lineCount, and the import references
\* in increasing line order; the same holds of the summary returned with an
\* error when the read stops early or the file cannot be opened.
C12_SummaryConsistent ==
  /\ pc # "parse" =>
       /\ SummaryShape(files[1])
       /\ files[1].lines = TheFile.lines
  /\ \A p \in DOMAIN disk :
       /\ \A g \in {0, Len(disk[p].lines) \div 2} :
            SummaryShape(parseFile(p, Ext(p), [disk[p] EXCEPT !.err = "read", !.got = g]).info)
       /\ SummaryShape(parseFile(p, Ext(p), [disk[p] EXCEPT !.err = "open", !.got = 0]).info)

\* a parsed three-line file whose second and third lines are imports
C12_Witness ==
  /\ pc = "ruled"
  /\ files[1].lineCount = 3
  /\ Len(files[1].imports) = 2
  /\ files[1].imports[1].line = 2
  /\ files[1].imports[2].line = 3


\* the imports of fi that form a mutual-import pair, by position
PairingImports(fi) == {i \in 1..Len(fi.imports) : FormsPair(fi, i)}

\* what checkCircularDeps adds to an empty response for fi under the order o
CircOutcome(fi, o) == checkCircularDeps(<<>>, fi, importGraph, workspaceRoot, o)

\* C13: for a parsed file and the import graph the walk has built,
\* checkCircularDeps gives the same outcome under every iteration order of the
\* graph's entries: no finding when no import of the file forms a mutual pair
\* with another entry, otherwise one finding whose line and imported_module
\* are those of the first pairing import in the file's own order; the
\* ARCH-001 findings the scan returns for the file are that outcome.
C13_OrderIndependent ==
  (pc = "done" /\ result.status = "ok") =>
    \A n \in 1..Len(files) :
      LET fi == files[n]
          ps == PairingImports(fi)
          o0 == CHOOSE o \in Perms(DOMAIN importGraph) : TRUE
      IN /\ \A o \in Perms(DOMAIN importGraph) :
              LET out == CircOutcome(fi, o)
              IN /\ out = CircOutcome(fi, o0)
                 /\ IF ps = {} THEN out = <<>>
                    ELSE /\ Len(out) = 1
                         /\ out[1].startLine = fi.imports[SetMin(ps)].line
                         /\ out[1].metadata.imported_module = fi.imports[SetMin(ps)].module
         /\ OfRule(About(result.findings, fi.path), "ARCH-001") = CircOutcome(fi, o0)

\* the analysis loop has passed a/x.go, whose two imports pair with two
\* different entries of a three-entry graph: whichever entry the map yields
\* first, the finding is at the first import
C13_Witness ==
  /\ pc = "analyze"
  /\ idx = 2
  /\ Cardinality(DOMAIN importGraph) = 3
  /\ Len(files[1].imports) = 2
  /\ PairingImports(files[1]) = {1, 2}
  /\ files[1].imports[1].module # files[1].imports[2].module
  /\ Len(OfRule(About(resp, files[1].path), "ARCH-001")) = 1
  /\ OfRule(About(resp, files[1].path), "ARCH-001")[1].metadata.imported_module = files[1].imports[1].module

====
